---- MODULE Spec2Model ----
(***************************************************************************)
(* jobclock: a command-line work-session tracker (src/src/main.rs).        *)
(*                                                                         *)
(* One process invocation is   load-or-initialise the Session from the     *)
(* store  ->  apply one subcommand  ->  save (unless the subcommand        *)
(* returns early).  The store is the single file session.json.             *)
(*                                                                         *)
(* Time is counted in ticks since the epoch (UTC); one second is           *)
(* TicksPerSecond ticks, so that chrono's sub-second part of               *)
(* chrono::Local::now() is visible.  Strings are sequences of one-         *)
(* character strings, so that joining, trimming and JSON escaping are      *)
(* computed and not assumed.                                               *)
(***************************************************************************)
EXTENDS Integers, Sequences, FiniteSets, TLC

VARIABLES
    store,      \* the content of session.json: NoFile, CorruptFile or a JSON document
    now,        \* the wall clock read by chrono::Local::now(), in ticks
    pc,         \* per process: "init" | "waiting" | "loaded" | "created" | "exited" | "panicked"
    argv,       \* per process: the command line, [sub, rest]
    gitrun,     \* per process: what `git log` answers to this invocation
    session,    \* per process: the in-memory Session of main()
    out,        \* per process: the lines printed by the invocation
    phase       \* progress of the pattern begin, task*, end over the completed invocations

vars == <<store, now, pc, argv, gitrun, session, out, phase>>

----------------------------------------------------------------------------
(* Bounds of the model *)

MaxNow == 3             \* the clock stops advancing at this tick
MaxTasks == 2           \* no task is appended to a list of this length
TicksPerSecond == 2     \* resolution of the clock below one second

Procs == {1, 2}         \* process invocations that may overlap
SeqProcs == {1}         \* the sequential use: one invocation at a time

----------------------------------------------------------------------------
(* Generic helpers on sequences *)

Min(a, b) == IF a <= b THEN a ELSE b

\* Rust's integer division and remainder truncate toward zero.
RustDiv(a, b) == IF a >= 0 THEN a \div b ELSE -((-a) \div b)
RustRem(a, b) == a - b * RustDiv(a, b)

\* [T]::join(sep) of Rust's standard library: sep between consecutive items
RECURSIVE Join(_, _)
Join(ss, sep) ==
    IF ss = <<>> THEN <<>>
    ELSE IF Len(ss) = 1 THEN Head(ss)
    ELSE Head(ss) \o sep \o Join(Tail(ss), sep)

\* A character is a string: the character itself for the printable ASCII
\* characters (but the grave accent, which a string of this notation cannot
\* hold) and for tab, newline, form feed and carriage return, and the name
\* "U+XXXX" of its code point for every other one.  Ascii[n + 1] is the
\* character of code point n.
Ascii ==
    << "U+0000", "U+0001", "U+0002", "U+0003", "U+0004", "U+0005", "U+0006", "U+0007",
       "U+0008", "\t", "\n", "U+000B", "\f", "\r", "U+000E", "U+000F",
       "U+0010", "U+0011", "U+0012", "U+0013", "U+0014", "U+0015", "U+0016", "U+0017",
       "U+0018", "U+0019", "U+001A", "U+001B", "U+001C", "U+001D", "U+001E", "U+001F",
       " ", "!", "\"", "#", "$", "%", "&", "'",
       "(", ")", "*", "+", ",", "-", ".", "/",
       "0", "1", "2", "3", "4", "5", "6", "7",
       "8", "9", ":", ";", "<", "=", ">", "?",
       "@", "A", "B", "C", "D", "E", "F", "G",
       "H", "I", "J", "K", "L", "M", "N", "O",
       "P", "Q", "R", "S", "T", "U", "V", "W",
       "X", "Y", "Z", "[", "\\", "]", "^", "_",
       "U+0060", "a", "b", "c", "d", "e", "f", "g",
       "h", "i", "j", "k", "l", "m", "n", "o",
       "p", "q", "r", "s", "t", "u", "v", "w",
       "x", "y", "z", "{", "|", "}", "~", "U+007F" >>

HexDigits ==
    <<"0", "1", "2", "3", "4", "5", "6", "7", "8", "9", "A", "B", "C", "D", "E", "F">>

LowerHexDigits ==
    <<"0", "1", "2", "3", "4", "5", "6", "7", "8", "9", "a", "b", "c", "d", "e", "f">>

\* n in hexadecimal, in at least width digits
RECURSIVE HexStr(_, _)
HexStr(n, width) ==
    IF n = 0 /\ width <= 0 THEN ""
    ELSE HexStr(n \div 16, width - 1) \o HexDigits[(n % 16) + 1]

\* the character of code point n
CharOf(n) == IF n < 128 THEN Ascii[n + 1] ELSE "U+" \o HexStr(n, 4)

\* the value of a hexadecimal digit, -1 for any other character
HexVal(c) ==
    IF \E i \in 1..16 : HexDigits[i] = c
    THEN (CHOOSE i \in 1..16 : HexDigits[i] = c) - 1
    ELSE IF \E i \in 11..16 : LowerHexDigits[i] = c
    THEN (CHOOSE i \in 11..16 : LowerHexDigits[i] = c) - 1
    ELSE -1

\* the characters below U+0020
IsControl(c) ==
    IF Len(c) = 1 THEN c \in {"\t", "\n", "\f", "\r"}
    ELSE \E i \in 1..32 : Ascii[i] = c

\* the number of bytes of a character in UTF-8
Utf8Len(c) ==
    IF Len(c) = 1 THEN 1
    ELSE IF \E i \in 1..128 : Ascii[i] = c THEN 1
    ELSE IF Len(c) > 6 THEN 4
    ELSE IF c \in {CharOf(n) : n \in 128..2047} THEN 2
    ELSE 3

RECURSIVE Utf8Size(_)
Utf8Size(s) == IF s = <<>> THEN 0 ELSE Utf8Len(Head(s)) + Utf8Size(Tail(s))

\* char::is_whitespace: the characters with the Unicode property White_Space
IsWhite(c) ==
    c \in {"\t", "\n", "U+000B", "\f", "\r", " ",
         "U+0085", "U+00A0", "U+1680", "U+2000", "U+2001", "U+2002",
         "U+2003", "U+2004", "U+2005", "U+2006", "U+2007", "U+2008",
         "U+2009", "U+200A", "U+2028", "U+2029", "U+202F", "U+205F",
         "U+3000"}

RECURSIVE TrimStart(_)
TrimStart(s) ==
    IF s = <<>> THEN <<>>
    ELSE IF IsWhite(Head(s)) THEN TrimStart(Tail(s)) ELSE s

RECURSIVE TrimEnd(_)
TrimEnd(s) ==
    IF s = <<>> THEN <<>>
    ELSE IF IsWhite(s[Len(s)]) THEN TrimEnd(SubSeq(s, 1, Len(s) - 1)) ELSE s

\* str::trim
Trim(s) == TrimEnd(TrimStart(s))

----------------------------------------------------------------------------
(* Task and Session *)

Task(name, created_at) == [name |-> name, created_at |-> created_at]

\* Session::new
new(t) == [tasks |-> <<>>, start_time |-> t, working |-> FALSE]

\* chrono's format("%d-%m-%Y %H:%M:%S") shows whole seconds of the instant
FormatTime(t) == t \div TicksPerSecond

\* an insertion that goes before the tasks of equal created_at
RECURSIVE InsertBeforeEqual(_, _)
InsertBeforeEqual(sorted, t) ==
    IF sorted = <<>> THEN <<t>>
    ELSE IF Head(sorted).created_at < t.created_at
         THEN <<Head(sorted)>> \o InsertBeforeEqual(Tail(sorted), t)
         ELSE <<t>> \o sorted

\* Vec::sort_by(|a, b| a.created_at.cmp(&b.created_at)) is a stable sort:
\* a task goes after every task already placed whose created_at is not greater.
RECURSIVE InsertByCreatedAt(_, _)
InsertByCreatedAt(sorted, t) ==
    IF sorted = <<>> THEN <<t>>
    ELSE IF Head(sorted).created_at <= t.created_at
         THEN <<Head(sorted)>> \o InsertByCreatedAt(Tail(sorted), t)
         ELSE <<t>> \o sorted

RECURSIVE SortByCreatedAt(_)
SortByCreatedAt(ts) ==
    IF ts = <<>> THEN <<>>
    ELSE InsertByCreatedAt(SortByCreatedAt(SubSeq(ts, 1, Len(ts) - 1)), ts[Len(ts)])

\* Session::get_tasks_clone_sorted
get_tasks_clone_sorted(self) == SortByCreatedAt(self.tasks)

\* an add_task that puts the task in front
add_task_front(self, t) == [self EXCEPT !.tasks = <<t>> \o @]

\* Session::add_task
add_task(self, t) == [self EXCEPT !.tasks = Append(@, t)]

\* What a Session method hands back to main: the session, the printed lines,
\* and whether the method panicked (the process then aborts).
Done(self, lines) == [self |-> self, out |-> lines, panic |-> FALSE]
Panicked(self, lines) == [self |-> self, out |-> lines, panic |-> TRUE]

\* a begin that starts over whatever the session is
begin_always_resets(self, t) ==
    Done([tasks |-> <<>>, start_time |-> t, working |-> TRUE],
         << <<"Job session started">> >>)

\* Session::begin; t is the value of chrono::Local::now()
begin(self, t) ==
    IF self.working
    THEN Done(self, << <<"Job session already started">> >>)
    ELSE Done([tasks |-> <<>>, start_time |-> t, working |-> TRUE],
              << <<"Job session started">> >>)

\* duration.num_seconds() and its split into hours, minutes, seconds
TotalSeconds(from, to) == RustDiv(to - from, TicksPerSecond)
Hours(total_seconds) == RustDiv(total_seconds, 3600)
\* minutes taken from the total, not from what the hours leave
Minutes_of_total(total_seconds) == RustDiv(total_seconds, 60)
Minutes(total_seconds) == RustDiv(RustRem(total_seconds, 3600), 60)
Seconds(total_seconds) == RustRem(total_seconds, 60)

TotalTimeLine(total_seconds) ==
    <<"Total time", Hours(total_seconds), Minutes(total_seconds), Seconds(total_seconds)>>

\* the task names in the order of self.tasks, joined by ". "
TaskSummary(self) ==
    Join([i \in 1..Len(self.tasks) |-> self.tasks[i].name], <<".", " ">>)

SummaryLines(self) ==
    IF TaskSummary(self) = <<>>
    THEN << <<"No tasks added">> >>
    ELSE << <<"Summary", TaskSummary(self) \o <<".">> >> >>

TimelineTasks(sorted) ==
    [i \in 1..Len(sorted) |->
        <<"Task", FormatTime(sorted[i].created_at), sorted[i].name>>]

\* an end that closes the session and keeps its tasks
end_keeps_tasks(self, t1, t2) ==
    IF self.working
    THEN Done([self EXCEPT !.working = FALSE],
              << <<"Job session ended">>, <<"Timeline:">>,
                 <<"Begin job session", FormatTime(t1)>> >>
              \o TimelineTasks(get_tasks_clone_sorted(self))
              \o << <<"End job session", FormatTime(t2)>>,
                    TotalTimeLine(TotalSeconds(self.start_time, t2)) >>
              \o SummaryLines(self)
              \o << <<"Hours", TotalSeconds(self.start_time, t2)>> >>)
    ELSE Done(self, << <<"No job session to end">> >>)

\* an end that does not look at working
end_unchecked(self, t1, t2) ==
    Done([self EXCEPT !.working = FALSE, !.tasks = <<>>],
         << <<"Job session ended">>, <<"Timeline:">>,
            <<"Begin job session", FormatTime(t1)>> >>
         \o TimelineTasks(get_tasks_clone_sorted(self))
         \o << <<"End job session", FormatTime(t2)>>,
               TotalTimeLine(TotalSeconds(self.start_time, t2)) >>
         \o SummaryLines(self)
         \o << <<"Hours", TotalSeconds(self.start_time, t2)>> >>)

\* an end that also sets start_time to the time of the end
end_resets_start_time(self, t1, t2) ==
    IF self.working
    THEN Done([tasks |-> <<>>, start_time |-> t2, working |-> FALSE],
              << <<"Job session ended">>, <<"Timeline:">>,
                 <<"Begin job session", FormatTime(t1)>> >>
              \o TimelineTasks(get_tasks_clone_sorted(self))
              \o << <<"End job session", FormatTime(t2)>>,
                    TotalTimeLine(TotalSeconds(self.start_time, t2)) >>
              \o SummaryLines(self)
              \o << <<"Hours", TotalSeconds(self.start_time, t2)>> >>)
    ELSE Done(self, << <<"No job session to end">> >>)

\* an end whose begin line shows the stored start_time
end_begin_line_start_time(self, t1, t2) ==
    IF self.working
    THEN Done([self EXCEPT !.working = FALSE, !.tasks = <<>>],
              << <<"Job session ended">>, <<"Timeline:">>,
                 <<"Begin job session", FormatTime(self.start_time)>> >>
              \o TimelineTasks(get_tasks_clone_sorted(self))
              \o << <<"End job session", FormatTime(t2)>>,
                    TotalTimeLine(TotalSeconds(self.start_time, t2)) >>
              \o SummaryLines(self)
              \o << <<"Hours", TotalSeconds(self.start_time, t2)>> >>)
    ELSE Done(self, << <<"No job session to end">> >>)

\* Session::end; t1 is the clock read for the begin line, t2 the later read
\* end_time.  The "Hours" line prints total_seconds / 3600.0 with two
\* decimals; the line carries the total_seconds it is computed from.
end(self, t1, t2) ==
    IF self.working
    THEN Done([self EXCEPT !.working = FALSE, !.tasks = <<>>],
              << <<"Job session ended">>, <<"Timeline:">>,
                 <<"Begin job session", FormatTime(t1)>> >>
              \o TimelineTasks(get_tasks_clone_sorted(self))
              \o << <<"End job session", FormatTime(t2)>>,
                    TotalTimeLine(TotalSeconds(self.start_time, t2)) >>
              \o SummaryLines(self)
              \o << <<"Hours", TotalSeconds(self.start_time, t2)>> >>)
    ELSE Done(self, << <<"No job session to end">> >>)

\* a task that takes the empty name too
task_accepts_empty(self, name, t) ==
    IF ~self.working
    THEN Done(self, << <<"No job session started">> >>)
    ELSE Done(add_task(self, Task(name, t)), << <<"Task added", name>> >>)

\* a task that does not look at working
task_while_idle(self, name, t) ==
    IF name = <<>>
    THEN Done(self, << <<"Task name is required">> >>)
    ELSE Done(add_task(self, Task(name, t)), << <<"Task added", name>> >>)

\* Session::task
task(self, name, t) ==
    IF ~self.working
    THEN Done(self, << <<"No job session started">> >>)
    ELSE IF name = <<>>
         THEN Done(self, << <<"Task name is required">> >>)
         ELSE Done(add_task(self, Task(name, t)), << <<"Task added", name>> >>)

StatusTasks(sorted) ==
    [i \in 1..Len(sorted) |->
        <<"StatusTask", FormatTime(sorted[i].created_at), sorted[i].name>>]

\* a status that sorts the session's own list
status_sorts_in_place(self, t) ==
    IF self.working
    THEN Done([self EXCEPT !.tasks = get_tasks_clone_sorted(self)],
              << <<"Job session started at", FormatTime(self.start_time)>>,
                 <<"Tasks:">> >>
              \o (IF self.tasks = <<>> THEN << <<"No tasks added">> >> ELSE <<>>)
              \o StatusTasks(get_tasks_clone_sorted(self))
              \o << TotalTimeLine(TotalSeconds(self.start_time, t)) >>)
    ELSE Done(self, << <<"No job session started">> >>)

\* Session::status
status(self, t) ==
    IF self.working
    THEN Done(self,
              << <<"Job session started at", FormatTime(self.start_time)>>,
                 <<"Tasks:">> >>
              \o (IF self.tasks = <<>> THEN << <<"No tasks added">> >> ELSE <<>>)
              \o StatusTasks(get_tasks_clone_sorted(self))
              \o << TotalTimeLine(TotalSeconds(self.start_time, t)) >>)
    ELSE Done(self, << <<"No job session started">> >>)

----------------------------------------------------------------------------
(* The commit importer: `git log` and the parsing of its output *)

\* A line of git's output.  k is what the line is, text its characters.  A
\* line also carries what chrono makes of it once "Date: " is removed, the
\* rest trimmed and its first word dropped: the date read (wall-clock seconds
\* and UTC offset), or ok = FALSE when parse_from_str rejects it.
Line(k, text, wall, off, ok) ==
    [k |-> k, text |-> text, wall |-> wall, off |-> off, ok |-> ok]
CommitLine == Line("commit", <<"c">>, 0, 0, FALSE)
AuthorLine == Line("Author", <<"A">>, 0, 0, FALSE)
MergeLine == Line("Merge", <<"M">>, 0, 0, FALSE)
DateLine(wall, off) == Line("Date", <<"D">>, wall, off, TRUE)
BadDateLine == Line("Date", <<"D", "?">>, 0, 0, FALSE)
TextLine(text) == Line("text", text, 0, 0, FALSE)
\* a line of a message that reads as a date, such as "on Oct 31 11:15:17 2026 +0000"
DatedTextLine(text, wall, off) == Line("text", text, wall, off, TRUE)

\* chrono::DateTime::parse_from_str(.., "%b %d %H:%M:%S %Y %z") of header[2]
\* with "Date: " and the first word removed, then .into() the local time zone:
\* the instant is the wall-clock time minus the offset.  The code does not
\* look at what kind of line header[2] is.
ParseDate(line) ==
    IF line.ok
    THEN [ok |-> TRUE, date |-> (line.wall - line.off) * TicksPerSecond]
    ELSE [ok |-> FALSE, date |-> 0]

\* the text of one "\n\n"-separated part: its lines joined by "\n"
PartText(part) == Join([i \in 1..Len(part) |-> part[i].text], <<"\n">>)

Commit(date, title) == [date |-> date, title |-> title]

\* The while loop of get_commits over the parts of stdout.split("\n\n"):
\* header[2] panics on a header of fewer than three lines, parts.next().unwrap()
\* panics when the title part is missing, and the unwrap() of the parsed date
\* panics on a date chrono rejects.
RECURSIVE ParseParts(_)
ParseParts(parts) ==
    IF parts = <<>> THEN [panic |-> FALSE, commits |-> <<>>]
    ELSE IF Len(Head(parts)) < 3 THEN [panic |-> TRUE, commits |-> <<>>]
    ELSE IF Len(parts) < 2 THEN [panic |-> TRUE, commits |-> <<>>]
    ELSE IF ~ParseDate(Head(parts)[3]).ok THEN [panic |-> TRUE, commits |-> <<>>]
    ELSE LET rest == ParseParts(SubSeq(parts, 3, Len(parts)))
             c == Commit(ParseDate(Head(parts)[3]).date, Trim(PartText(parts[2])))
         IN  IF rest.panic THEN rest
             ELSE [panic |-> FALSE, commits |-> <<c>> \o rest.commits]

\* What running `git log` gives: launched (Ok(output)) or not (Err),
\* output.status.success(), and the parts of stdout.
GitOutput(launched, success, stdout) ==
    [launched |-> launched, success |-> success, stdout |-> stdout]

\* a get_commits that unwraps the launch and the exit status
get_commits_unwrap(g) ==
    IF g.launched /\ g.success
    THEN [panic |-> ParseParts(g.stdout).panic,
          commits |-> ParseParts(g.stdout).commits, diag |-> <<>>]
    ELSE [panic |-> TRUE, commits |-> <<>>, diag |-> <<>>]

\* get_commits
get_commits(g) ==
    IF g.launched
    THEN IF g.success
         THEN LET r == ParseParts(g.stdout)
              IN  [panic |-> r.panic, commits |-> r.commits, diag |-> <<>>]
         ELSE [panic |-> FALSE, commits |-> <<>>,
               diag |-> << <<"There was an error!">>,
                           <<"Git command failed with error">> >>]
    ELSE [panic |-> FALSE, commits |-> <<>>,
          diag |-> << <<"Failed to execute git command">> >>]

\* a loop that also takes the commits made at start_date
RECURSIVE CommitsSinceOrAt(_, _)
CommitsSinceOrAt(commits, start_date) ==
    IF commits = <<>> THEN <<>>
    ELSE (IF Head(commits).date >= start_date
          THEN <<Task(Head(commits).title, Head(commits).date)>>
          ELSE <<>>)
         \o CommitsSinceOrAt(Tail(commits), start_date)

\* the for loop of get_commit_titles_since: the commits newer than start_date,
\* in the order of the log
RECURSIVE CommitsSince(_, _)
CommitsSince(commits, start_date) ==
    IF commits = <<>> THEN <<>>
    ELSE (IF Head(commits).date > start_date
          THEN <<Task(Head(commits).title, Head(commits).date)>>
          ELSE <<>>)
         \o CommitsSince(Tail(commits), start_date)

\* get_commit_titles_since
get_commit_titles_since(start_date, g) ==
    LET r == get_commits(g)
    IN  [panic |-> r.panic, diag |-> r.diag,
         tasks |-> IF r.panic THEN <<>> ELSE CommitsSince(r.commits, start_date)]

\* Session::extract_from_git
extract_from_git(self, g) ==
    IF ~self.working
    THEN Done(self, << <<"No job session started">> >>)
    ELSE LET r == get_commit_titles_since(self.start_time, g)
         IN  IF r.panic
             THEN Panicked(self, r.diag)
             ELSE Done([self EXCEPT !.tasks = @ \o r.tasks],
                       r.diag \o << <<"Extracted", Len(r.tasks)>> >>)

----------------------------------------------------------------------------
(* The store: session.json, written by serde_json *)

\* serde_json writes a string with '"' and '\' behind a '\', backspace, tab,
\* newline, form feed and carriage return as \b \t \n \f \r, every other
\* character below U+0020 as \u00xx in lower-case hexadecimal, and every
\* other character as it is
EscapeChar(c) ==
    IF c \in {"\"", "\\"} THEN <<"\\", c>>
    ELSE IF c = "\n" THEN <<"\\", "n">>
    ELSE IF c = "\t" THEN <<"\\", "t">>
    ELSE IF c = "\r" THEN <<"\\", "r">>
    ELSE IF c = "\f" THEN <<"\\", "f">>
    ELSE IF Len(c) = 1 THEN <<c>>
    ELSE IF c = CharOf(8) THEN <<"\\", "b">>
    ELSE IF IsControl(c)
         THEN LET n == (CHOOSE i \in 1..32 : Ascii[i] = c) - 1
              IN  <<"\\", "u", "0", "0",
                    LowerHexDigits[(n \div 16) + 1], LowerHexDigits[(n % 16) + 1]>>
    ELSE <<c>>

RECURSIVE EscapeJson(_)
EscapeJson(s) ==
    IF s = <<>> THEN <<>> ELSE EscapeChar(Head(s)) \o EscapeJson(Tail(s))

\* the escapes of one character serde_json reads, and what each stands for
SimpleEscape ==
    ("\"" :> "\"") @@ ("\\" :> "\\") @@ ("/" :> "/") @@ ("b" :> CharOf(8))
    @@ ("f" :> "\f") @@ ("n" :> "\n") @@ ("r" :> "\r") @@ ("t" :> "\t")

\* the character a one-character escape stands for; serde_json rejects a '\'
\* before any other character (but u, below)
UnescapeChar(c) == SimpleEscape[c]

\* the code point of the four hexadecimal digits of e from position i, -1
\* when they are not there
Hex4(e, i) ==
    IF Len(e) < i + 3 THEN -1
    ELSE IF \E k \in i..(i + 3) : HexVal(e[k]) < 0 THEN -1
    ELSE ((HexVal(e[i]) * 16 + HexVal(e[i + 1])) * 16 + HexVal(e[i + 2])) * 16
         + HexVal(e[i + 3])

\* serde_json reading the inside of a JSON string: ok = FALSE where it
\* returns an error, on a '\' with nothing or an unknown character after it,
\* a \u without four hexadecimal digits, a surrogate that is not half of a
\* pair, and a '"' or a character below U+0020 that is not escaped
RECURSIVE ParseJsonString(_)
ParseJsonString(e) ==
    LET Bad == [ok |-> FALSE, s |-> <<>>]
        Then(c, rest) ==
            IF rest.ok THEN [ok |-> TRUE, s |-> <<c>> \o rest.s] ELSE Bad
        From(i) == ParseJsonString(SubSeq(e, i, Len(e)))
    IN  IF e = <<>> THEN [ok |-> TRUE, s |-> <<>>]
        ELSE IF Head(e) = "\\"
        THEN IF Len(e) < 2 THEN Bad
             ELSE IF e[2] \in DOMAIN SimpleEscape
             THEN Then(UnescapeChar(e[2]), From(3))
             ELSE IF e[2] # "u" THEN Bad
             ELSE LET n == Hex4(e, 3)
                  IN  IF n < 0 \/ n \in 56320..57343 THEN Bad
                      ELSE IF n \in 55296..56319
                      THEN IF Len(e) >= 8 /\ e[7] = "\\" /\ e[8] = "u"
                              /\ Hex4(e, 9) \in 56320..57343
                           THEN Then(CharOf(65536 + (n - 55296) * 1024
                                               + (Hex4(e, 9) - 56320)),
                                     From(13))
                           ELSE Bad
                      ELSE Then(CharOf(n), From(7))
        ELSE IF IsControl(Head(e)) \/ Head(e) = "\"" THEN Bad
        ELSE Then(Head(e), From(2))

\* chrono's serde form of a DateTime<Local> is RFC 3339: the local wall-clock
\* seconds, the fraction of a second, and the UTC offset
ToRfc3339(t, off) ==
    [secs |-> (t \div TicksPerSecond) + off, frac |-> t % TicksPerSecond, off |-> off]

\* read back as the instant the text denotes
FromRfc3339(d) == (d.secs - d.off) * TicksPerSecond + d.frac

\* a serialisation that writes whole seconds
to_string_whole_seconds(self, off) ==
    [tasks |-> [i \in 1..Len(self.tasks) |->
                    [name |-> EscapeJson(self.tasks[i].name),
                     created_at |-> [ToRfc3339(self.tasks[i].created_at, off)
                                        EXCEPT !.frac = 0]]],
     start_time |-> [ToRfc3339(self.start_time, off) EXCEPT !.frac = 0],
     working |-> IF self.working THEN "true" ELSE "false"]

\* serde_json::to_string(&self)
to_string(self, off) ==
    [tasks |-> [i \in 1..Len(self.tasks) |->
                    [name |-> EscapeJson(self.tasks[i].name),
                     created_at |-> ToRfc3339(self.tasks[i].created_at, off)]],
     start_time |-> ToRfc3339(self.start_time, off),
     working |-> IF self.working THEN "true" ELSE "false"]

\* serde_json::from_str(&data): a Result, Ok with the session when every
\* string of the document reads; names holds the task names as read
FromParsed(data, names) ==
    [ok |-> \A i \in 1..Len(names) : names[i].ok,
     self |-> [tasks |-> [i \in 1..Len(data.tasks) |->
                             Task(names[i].s, FromRfc3339(data.tasks[i].created_at))],
               start_time |-> FromRfc3339(data.start_time),
               working |-> data.working = "true"]]

from_str(data) ==
    FromParsed(data, [i \in 1..Len(data.tasks) |-> ParseJsonString(data.tasks[i].name)])

\* The length in bytes of the JSON text serde_json writes for a document:
\* {"tasks":[{"name":"..","created_at":".."},..],"start_time":"..","working":..}
\* A timestamp is YYYY-MM-DDTHH:MM:SS+HH:MM, or YYYY-MM-DDTHH:MM:SSZ when the
\* offset is zero; chrono writes the fraction of a second, when there is one,
\* as '.' and 3, 6 or 9 digits, the fewest that hold it (SecondsFormat::AutoSi).
FractionDigits(frac) ==
    IF frac = 0 THEN 0
    ELSE IF (frac * 1000) % TicksPerSecond = 0 THEN 3
    ELSE IF (frac * 1000000) % TicksPerSecond = 0 THEN 6
    ELSE 9

TimeSize(d) ==
    (IF d.off = 0 THEN 20 ELSE 25)
    + (IF FractionDigits(d.frac) = 0 THEN 0 ELSE 1 + FractionDigits(d.frac))

TaskSize(t) == 27 + Utf8Size(t.name) + TimeSize(t.created_at)

RECURSIVE TasksSize(_)
TasksSize(ts) ==
    IF ts = <<>> THEN 0
    ELSE TaskSize(Head(ts)) + (IF Len(ts) > 1 THEN 1 ELSE 0) + TasksSize(Tail(ts))

DocSize(doc) ==
    39 + TasksSize(doc.tasks) + TimeSize(doc.start_time)
       + (IF doc.working = "true" THEN 4 ELSE 5)

EmptyDoc == to_string(new(0), 0)

\* The file: whether it exists, whether its text has the form of a Session
\* document (valid) and then the document, and the length in bytes of a text
\* that has not.
\* No session.json / a session.json of one byte, which serde_json cannot parse
NoFile == [exists |-> FALSE, valid |-> FALSE, doc |-> EmptyDoc, junk |-> 0]
CorruptFile == [exists |-> TRUE, valid |-> FALSE, doc |-> EmptyDoc, junk |-> 1]

\* persistent_file().exists()
FileExists(file) == file.exists

\* the length of the file in bytes
FileSize(file) ==
    IF ~file.exists THEN 0 ELSE IF file.valid THEN DocSize(file.doc) ELSE file.junk

\* Session::save: the file afterwards
save(self, off) ==
    [exists |-> TRUE, valid |-> TRUE, doc |-> to_string(self, off), junk |-> 0]

\* Result::unwrap on what from_str returns
Unwrap(r) ==
    IF r.ok THEN [panic |-> FALSE, self |-> r.self]
    ELSE [panic |-> TRUE, self |-> new(0)]

\* a load that falls back to a new session when the file does not parse
load_or_default(file) ==
    IF file.exists /\ file.valid
    THEN [panic |-> FALSE, self |-> Unwrap(from_str(file.doc)).self]
    ELSE [panic |-> FALSE, self |-> new(0)]

\* Session::load: read_to_string, and the unwrap() of from_str panics on a
\* file that does not parse
load(file) ==
    IF file.exists /\ file.valid
    THEN Unwrap(from_str(file.doc))
    ELSE [panic |-> TRUE, self |-> new(0)]

----------------------------------------------------------------------------
(* Inputs of an invocation *)

\* std::env::args().skip(2): no argument, the two words a b, the one word \"
ArgLists ==
    { <<>>, << <<"a">>, <<"b">> >>, << <<"\\", "\"">> >> }

\* the local UTC offsets (seconds) an invocation may run under
Offsets == {3600}

Header(date) == <<CommitLine, AuthorLine, date>>
TitlePart(text) == <<TextLine(text)>>
\* git log of three commits as git prints it: the message indented by four
\* spaces, one with a body (the blank line between subject and body is
\* indented as well, so the body stays in the part of the subject), and a
\* newline after the last message
GoodLog ==
    << Header(DateLine(2, 0)), TitlePart(<<" ", " ", " ", " ", "x">>),
       Header(DateLine(3601, 3600)),
       <<TextLine(<<" ", " ", " ", " ", "y">>), TextLine(<<" ", " ", " ", " ">>),
         TextLine(<<" ", " ", " ", " ", "n">>)>>,
       Header(DateLine(0, 0)),
       <<TextLine(<<" ", " ", " ", " ", "z">>), TextLine(<<>>)>> >>
\* a title part of spaces only, as under a format.pretty setting whose
\* message part is blank
BlankTitleLog ==
    << Header(DateLine(1, 0)), TitlePart(<<" ", " ">>) >>
\* a log whose first part has a message line that reads as a date in the
\* third place
DatedTextLog ==
    << <<TextLine(<<"p">>), TextLine(<<"q">>), DatedTextLine(<<"o">>, 2, 0)>>,
       TitlePart(<<" ", " ", " ", " ", "x">>) >>

\* What stdout.split("\n\n") can yield: at least one part, every part at
\* least one line, no line holding a newline, no empty line strictly inside a
\* part (the part would hold "\n\n"), and no part of several lines ending in
\* an empty line unless it is the last (the split would have cut one line
\* earlier).
IsSplit(parts) ==
    /\ Len(parts) >= 1
    /\ \A i \in 1..Len(parts) :
          /\ Len(parts[i]) >= 1
          /\ \A j \in 1..Len(parts[i]) :
                \A k \in 1..Len(parts[i][j].text) : parts[i][j].text[k] # "\n"
          /\ \A j \in 2..(Len(parts[i]) - 1) : parts[i][j].text # <<>>
          /\ (i < Len(parts) /\ Len(parts[i]) > 1)
                => parts[i][Len(parts[i])].text # <<>>

\* the answers of `git log` the model draws from
GitOutputs ==
    { g \in
    { GitOutput(FALSE, FALSE, <<>>),                    \* git cannot be launched
      GitOutput(TRUE, FALSE, <<>>),                     \* git exits non-zero
      GitOutput(TRUE, TRUE, GoodLog),
      GitOutput(TRUE, TRUE, BlankTitleLog),
      GitOutput(TRUE, TRUE, DatedTextLog),
      \* a record whose header has no date line
      GitOutput(TRUE, TRUE,
          << Header(DateLine(2, 0)), TitlePart(<<"x">>),
             <<CommitLine, AuthorLine>>, TitlePart(<<"y">>) >>),
      \* a merge commit: the third header line is the Author line
      GitOutput(TRUE, TRUE,
          << <<CommitLine, MergeLine, AuthorLine, DateLine(2, 0)>>, TitlePart(<<"x">>) >>),
      \* a date chrono rejects
      GitOutput(TRUE, TRUE,
          << Header(DateLine(2, 0)), TitlePart(<<"x">>),
             Header(BadDateLine), TitlePart(<<"y">>) >>),
      \* a header with no title block after it, as git prints the oldest
      \* commit when its message is empty
      GitOutput(TRUE, TRUE,
          << Header(DateLine(2, 0)), TitlePart(<<"x">>), Header(DateLine(1, 0)) >>),
      \* an empty stdout: "".split("\n\n") yields one part of one empty line
      GitOutput(TRUE, TRUE, << TitlePart(<<>>) >>) } :
      (g.launched /\ g.success) => IsSplit(g.stdout) }

NoGit == GitOutput(FALSE, FALSE, <<>>)

\* the remaining command-line words joined with spaces
Args(av) == Join(av.rest, <<" ">>)

UsageLines == << <<"Usage">> >>

----------------------------------------------------------------------------
(* The dispatcher: main() *)

\* The head of main(): Session::new(), then load session.json when it
\* exists, save the new session when it does not.  t is the clock, off the
\* local UTC offset.
Loaded(l, file, t) ==
    [panic |-> l.panic, self |-> IF l.panic THEN new(t) ELSE l.self, file |-> file]

\* a head of main() that does not save the new session
LoadOrInit_no_save(file, t, off) ==
    IF FileExists(file)
    THEN Loaded(load(file), file, t)
    ELSE [panic |-> FALSE, self |-> new(t), file |-> file]

LoadOrInit(file, t, off) ==
    IF FileExists(file)
    THEN Loaded(load(file), file, t)
    ELSE [panic |-> FALSE, self |-> new(t), file |-> save(new(t), off)]

\* what a match arm of main() leaves: r is the method's result, and saved
\* tells whether main() goes on to session.save()
Arm(r, saved) ==
    [self |-> r.self, out |-> r.out, panic |-> r.panic, saved |-> saved /\ ~r.panic]

\* The rest of main(): the subcommand and its match arm.  t1 is the clock, t2
\* the second, later clock read of end.
Dispatch(self, av, g, t1, t2) ==
    IF av.sub = ""
    THEN Arm(Done(self, << <<"ERROR: No subcommand found">> >> \o UsageLines), FALSE)
    ELSE IF av.sub = "begin" THEN Arm(begin(self, t1), TRUE)
    ELSE IF av.sub = "end" THEN Arm(end(self, t1, t2), TRUE)
    ELSE IF av.sub = "task" THEN Arm(task(self, Args(av), t1), TRUE)
    ELSE IF av.sub = "help" THEN Arm(Done(self, UsageLines), FALSE)
    ELSE IF av.sub = "version" THEN Arm(Done(self, << <<"Jobclock v">> >>), FALSE)
    ELSE IF av.sub = "status" THEN Arm(status(self, t1), FALSE)
    ELSE IF av.sub = "git" THEN Arm(extract_from_git(self, g), TRUE)
    ELSE Arm(Done(self, << <<"ERROR: Invalid command entered", Args(av)>> >>
                        \o UsageLines), FALSE)

\* an exit of main() without session.save()
Exit_without_save(l, d, off) ==
    [file |-> l.file,
     self |-> d.self,
     out |-> d.out,
     exit |-> IF d.panic THEN "panicked" ELSE "exited"]

\* main() from start to exit: the file afterwards, the session in memory at
\* the exit, the output, and how the process ended
Exit(l, d, off) ==
    [file |-> IF d.saved THEN save(d.self, off) ELSE l.file,
     self |-> d.self,
     out |-> d.out,
     exit |-> IF d.panic THEN "panicked" ELSE "exited"]

MainFrom(l, av, g, off, t1, t2) ==
    IF l.panic
    THEN [file |-> l.file, self |-> l.self, out |-> <<>>, exit |-> "panicked"]
    ELSE Exit(l, Dispatch(l.self, av, g, t1, t2), off)

main(file, av, g, off, t1, t2) ==
    MainFrom(LoadOrInit(file, t1, off), av, g, off, t1, t2)

Init ==
    /\ store \in {NoFile, CorruptFile}
    /\ now = 0
    /\ pc = [p \in Procs |-> "init"]
    /\ argv = [p \in Procs |-> [sub |-> "", rest |-> <<>>]]
    /\ gitrun = [p \in Procs |-> NoGit]
    /\ session = [p \in Procs |-> new(0)]
    /\ out = [p \in Procs |-> <<>>]
    /\ phase = "none"

\* the pattern begin, task*, end over the completed invocations
NextPhase(sub, exit) ==
    IF exit # "exited" THEN "none"
    ELSE IF sub = "begin" THEN "begun"
    ELSE IF sub = "task" /\ phase = "begun" THEN "begun"
    ELSE IF sub = "end" /\ phase = "begun" THEN "ended"
    ELSE "none"

\* the clock advances
Tick ==
    /\ now < MaxNow
    /\ now' = now + 1
    /\ UNCHANGED <<store, pc, argv, gitrun, session, out, phase>>

\* One whole invocation of process p, with nothing running beside it.
Run(p, sub, rest, off, g, t2) ==
    /\ \A q \in Procs : pc[q] # "loaded"
    /\ \E m \in {main(store, [sub |-> sub, rest |-> rest], g, off, now, t2)} :
           /\ Len(m.self.tasks) <= MaxTasks
           /\ store' = m.file
           /\ session' = [session EXCEPT ![p] = m.self]
           /\ out' = [out EXCEPT ![p] = m.out]
           /\ pc' = [pc EXCEPT ![p] = m.exit]
           /\ phase' = NextPhase(sub, m.exit)
    /\ argv' = [argv EXCEPT ![p] = [sub |-> sub, rest |-> rest]]
    /\ gitrun' = [gitrun EXCEPT ![p] = g]
    /\ now' = t2

RunNoSubcommand(p) == \E off \in Offsets : Run(p, "", <<>>, off, NoGit, now)

RunBegin(p) == \E off \in Offsets : Run(p, "begin", <<>>, off, NoGit, now)

\* end reads the clock twice; the second read may come a tick later
RunEnd(p) ==
    \E off \in Offsets, t2 \in now..Min(now + 1, MaxNow) :
        Run(p, "end", <<>>, off, NoGit, t2)

RunTask(p) ==
    \E off \in Offsets, rest \in ArgLists : Run(p, "task", rest, off, NoGit, now)

RunHelp(p) == \E off \in Offsets : Run(p, "help", <<>>, off, NoGit, now)

RunVersion(p) == \E off \in Offsets : Run(p, "version", <<>>, off, NoGit, now)

RunStatus(p) == \E off \in Offsets : Run(p, "status", <<>>, off, NoGit, now)

\* main() waits for `git log` between its load and its save; with one
\* invocation at a time nothing can happen during the wait, so the wait is
\* inside the step.  GitStep below is the wait with another invocation beside.
RunGit(p) == \E off \in Offsets, g \in GitOutputs : Run(p, "git", <<>>, off, g, now)

RunInvalid(p) ==
    \E off \in Offsets, rest \in ArgLists : Run(p, "bogus", rest, off, NoGit, now)

Invocation(p) ==
    \/ RunNoSubcommand(p)
    \/ RunBegin(p)
    \/ RunEnd(p)
    \/ RunTask(p)
    \/ RunHelp(p)
    \/ RunVersion(p)
    \/ RunStatus(p)
    \/ RunGit(p)
    \/ RunInvalid(p)

\* one invocation at a time
Next == Tick \/ \E p \in SeqProcs : Invocation(p)

Spec == Init /\ [][Next]_vars

----------------------------------------------------------------------------
(* Long sessions: the clock read at any distance from start_time *)

\* seconds since the epoch at which the clock is read: around the minute,
\* the hour and the day
ReadSeconds ==
    {0, 1, 59, 60, 61, 3599, 3600, 3601, 3661, 7199, 7200, 86399, 86400, 90061}

ClockReads ==
    {s * TicksPerSecond + f : s \in ReadSeconds, f \in 0..(TicksPerSecond - 1)}

InitClock ==
    /\ store = NoFile
    /\ now \in {t \in ClockReads : t < 60 * TicksPerSecond}
    /\ pc = [p \in Procs |-> "init"]
    /\ argv = [p \in Procs |-> [sub |-> "", rest |-> <<>>]]
    /\ gitrun = [p \in Procs |-> NoGit]
    /\ session = [p \in Procs |-> new(0)]
    /\ out = [p \in Procs |-> <<>>]
    /\ phase = "none"

\* time passes between two invocations, or the wall clock is set, forward or
\* back: chrono::Local::now() is not monotonic
Elapse ==
    /\ now' \in ClockReads \ {now}
    /\ UNCHANGED <<store, pc, argv, gitrun, session, out, phase>>

\* end at any clock; the second read may come a tick later, which the model
\* follows from the chosen readings only
RunEndAt(p) ==
    \E off \in Offsets, t2 \in {now} \cup (IF now \in ClockReads THEN {now + 1} ELSE {}) :
        Run(p, "end", <<>>, off, NoGit, t2)

NextClock ==
    \/ Elapse
    \/ \E p \in SeqProcs : RunBegin(p) \/ RunStatus(p) \/ RunEndAt(p)

SpecClock == InitClock /\ [][NextClock]_vars

----------------------------------------------------------------------------
(* Two invocations at once: session.json is read and written with no lock *)

\* a save that opens session.json for writing without truncating it
\* (OpenOptions::new().write(true).create(true)) and then writes
create_without_truncate(file) == [file EXCEPT !.exists = TRUE]

\* std::fs::write is File::create, which opens session.json and truncates it
\* to length 0, and then write_all.  An empty file does not parse.
create(file) == [exists |-> TRUE, valid |-> FALSE, doc |-> EmptyDoc, junk |-> 0]

\* write_all writes the bytes of data from offset 0 of the file as it is now.
\* Over a file that is not longer that leaves data; over a longer file,
\* whether it parses or not, it leaves data followed by the tail of what was
\* there, which does not parse.
write_all(file, data) ==
    IF FileSize(file) > FileSize(data)
    THEN [exists |-> TRUE, valid |-> FALSE, doc |-> EmptyDoc, junk |-> FileSize(file)]
    ELSE data

\* the command lines of the invocations that overlap
ConcArgs ==
    {[sub |-> sub, rest |-> <<>>] : sub \in {"begin", "end", "status", "git"}}
    \cup {[sub |-> "task", rest |-> rest] : rest \in ArgLists \ {<<>>}}

\* the answers of `git log` to an invocation that overlaps another: git
\* exits non-zero, the log of three commits, the log of a merge commit
ConcGitOutputs ==
    { g \in GitOutputs :
        \/ g.launched /\ ~g.success
        \/ g.launched /\ g.success /\ g.stdout = GoodLog
        \/ g.launched /\ g.success /\ Len(g.stdout[1]) = 4 }

\* Each process is one invocation; session.json exists, left by an earlier
\* invocation: a new session, or a session begun at time 0.
InitConc ==
    /\ store \in {save(new(0), off) : off \in Offsets}
                 \cup {save(begin(new(0), 0).self, off) : off \in Offsets}
    /\ now = 0
    /\ pc = [p \in Procs |-> "init"]
    /\ argv = [p \in Procs |-> [sub |-> "", rest |-> <<>>]]
    /\ gitrun = [p \in Procs |-> NoGit]
    /\ session = [p \in Procs |-> new(0)]
    /\ out = [p \in Procs |-> <<>>]
    /\ phase = "none"

\* main() of p up to session.save(): the head of main() reads the file (or
\* saves a new session when there is none), the subcommand acts on the
\* session in memory.  end reads the clock twice; the second read, t2, may
\* come a tick later.  git on a working session launches `git log` and waits
\* for it with the session as loaded.
LoadStep(p) ==
    /\ pc[p] = "init"
    /\ \E av \in ConcArgs, off \in Offsets, t2 \in now..Min(now + 1, MaxNow) :
          /\ av.sub # "end" => t2 = now
          /\ now' = t2
          /\ argv' = [argv EXCEPT ![p] = av]
          /\ \E l \in {LoadOrInit(store, now, off)} :
                /\ store' = l.file
                /\ IF l.panic
                   THEN /\ session' = [session EXCEPT ![p] = l.self]
                        /\ out' = [out EXCEPT ![p] = <<>>]
                        /\ pc' = [pc EXCEPT ![p] = "panicked"]
                        /\ phase' = NextPhase(av.sub, "panicked")
                   ELSE IF av.sub = "git" /\ l.self.working
                   THEN /\ session' = [session EXCEPT ![p] = l.self]
                        /\ out' = [out EXCEPT ![p] = <<>>]
                        /\ pc' = [pc EXCEPT ![p] = "waiting"]
                        /\ phase' = phase
                   ELSE \E d \in {Dispatch(l.self, av, NoGit, now, t2)} :
                           /\ Len(d.self.tasks) <= MaxTasks
                           /\ session' = [session EXCEPT ![p] = d.self]
                           /\ out' = [out EXCEPT ![p] = d.out]
                           /\ pc' = [pc EXCEPT ![p] =
                                        IF d.saved THEN "loaded" ELSE "exited"]
                           /\ phase' = IF d.saved THEN phase
                                       ELSE NextPhase(av.sub, "exited")
    /\ UNCHANGED gitrun

\* `git log` answers p: get_commits reads the answer and extract_from_git
\* adds the newer commits to the session loaded before the wait
GitStep(p) ==
    /\ pc[p] = "waiting"
    /\ \E g \in ConcGitOutputs :
          /\ gitrun' = [gitrun EXCEPT ![p] = g]
          /\ \E d \in {Dispatch(session[p], argv[p], g, now, now)} :
                /\ Len(d.self.tasks) <= MaxTasks
                /\ session' = [session EXCEPT ![p] = d.self]
                /\ out' = [out EXCEPT ![p] = d.out]
                /\ pc' = [pc EXCEPT ![p] = IF d.saved THEN "loaded" ELSE "panicked"]
                /\ phase' = IF d.saved THEN phase ELSE NextPhase(argv[p].sub, "panicked")
    /\ UNCHANGED <<store, now, argv>>

\* session.save() of p, first half: File::create
CreateStep(p) ==
    /\ pc[p] = "loaded"
    /\ store' = create(store)
    /\ pc' = [pc EXCEPT ![p] = "created"]
    /\ UNCHANGED <<now, argv, gitrun, session, out, phase>>

\* session.save() of p, second half: write_all, and main() returns
WriteStep(p) ==
    /\ pc[p] = "created"
    /\ \E off \in Offsets : store' = write_all(store, save(session[p], off))
    /\ pc' = [pc EXCEPT ![p] = "exited"]
    /\ phase' = NextPhase(argv[p].sub, "exited")
    /\ UNCHANGED <<now, argv, gitrun, session, out>>

NextConc ==
    \/ Tick
    \/ \E p \in Procs : LoadStep(p) \/ GitStep(p) \/ CreateStep(p) \/ WriteStep(p)

SpecConc == InitConc /\ [][NextConc]_vars

----------------------------------------------------------------------------
(* Properties *)

\* A step is an invocation of p exactly when it is Run with the command line
\* and the git answer the step records, the clock moving only in end.
InvocationStep(p) ==
    /\ now' \in (IF argv'[p].sub = "end" THEN {now, now + 1} ELSE {now})
    /\ \E off \in Offsets :
          Run(p, argv'[p].sub, argv'[p].rest, off, gitrun'[p], now')

\* the session an invocation starts from: the persisted one, or a new one
PreSession == IF FileExists(store) THEN load(store).self ELSE new(now)

\* the invocation gets past the head of main(): no file, or one that parses
StoreReadable == ~FileExists(store) \/ store.valid

\* the session session.json holds
Persisted == load(store).self

HasLine(lines, tag) == \E i \in 1..Len(lines) : lines[i][1] = tag

\* C1: after begin, then any number of task calls, then end, whatever the
\* session was before, the session is not working and has no tasks, in
\* memory and in the store.
C1_EndClosesSession ==
    phase = "ended" =>
        \A p \in SeqProcs :
            /\ session[p].working = FALSE
            /\ Len(session[p].tasks) = 0
            /\ store.valid
            /\ Persisted.working = FALSE
            /\ Len(Persisted.tasks) = 0

\* begin, at least one accepted task, end: the report of end lists the task
C1_Witness ==
    /\ phase = "ended"
    /\ HasLine(out[1], "Task")
    /\ HasLine(out[1], "Summary")

\* C2: task(name) appends exactly Task{name, now} at the end of tasks when
\* the session is working and name is not empty, and otherwise leaves tasks,
\* start_time and working as they were.
C2_TaskAppendsIffActiveAndNamed ==
    [][\A p \in SeqProcs :
          (argv'[p].sub = "task" /\ InvocationStep(p) /\ StoreReadable) =>
             /\ pc'[p] = "exited"
             /\ store'.valid /\ load(store').self = session'[p]
             /\ IF PreSession.working /\ Args(argv'[p]) # <<>>
                THEN /\ session'[p].tasks
                           = Append(PreSession.tasks, Task(Args(argv'[p]), now))
                     /\ session'[p].start_time = PreSession.start_time
                     /\ session'[p].working = TRUE
                     /\ out'[p] = << <<"Task added", Args(argv'[p])>> >>
                ELSE /\ session'[p] = PreSession
                     /\ out'[p] = IF PreSession.working
                                  THEN << <<"Task name is required">> >>
                                  ELSE << <<"No job session started">> >>]_vars

\* task "" on a working session that already has a task: rejected
C2_Witness ==
    /\ pc[1] = "exited" /\ argv[1].sub = "task" /\ argv[1].rest = <<>>
    /\ out[1] = << <<"Task name is required">> >>
    /\ session[1].working
    /\ Len(session[1].tasks) >= 1

\* C3: begin on an idle session sets start_time to now, empties tasks and
\* sets working; begin on a working session changes nothing, so the tasks
\* and the start_time of the first begin survive a second begin.
C3_BeginOnlyFromIdle ==
    [][\A p \in SeqProcs :
          (argv'[p].sub = "begin" /\ InvocationStep(p) /\ StoreReadable) =>
             /\ pc'[p] = "exited"
             /\ store'.valid /\ load(store').self = session'[p]
             /\ IF PreSession.working
                THEN session'[p] = PreSession
                ELSE session'[p] = [tasks |-> <<>>, start_time |-> now, working |-> TRUE]]_vars

\* a second begin, later than the first, on a session that has a task
C3_Witness ==
    /\ pc[1] = "exited" /\ argv[1].sub = "begin"
    /\ out[1] = << <<"Job session already started">> >>
    /\ Len(session[1].tasks) >= 1
    /\ session[1].start_time < now

\* C4: end on an idle session changes nothing and says so, also as the first
\* command on a store with no file: working stays false.
C4_EndOnIdleIsNoOp ==
    [][\A p \in SeqProcs :
          (/\ argv'[p].sub = "end" /\ InvocationStep(p)
           /\ StoreReadable /\ ~PreSession.working) =>
             /\ pc'[p] = "exited"
             /\ session'[p] = PreSession
             /\ session'[p].working = FALSE
             /\ store'.valid /\ load(store').self = PreSession
             /\ out'[p] = << <<"No job session to end">> >>]_vars

\* end has answered that there is no session to end
C4_Witness ==
    /\ pc[1] = "exited" /\ argv[1].sub = "end"
    /\ out[1] = << <<"No job session to end">> >>
    /\ ~session[1].working
    /\ store.valid /\ ~Persisted.working

\* C5: what load reads is what save wrote: after every invocation the
\* session session.json holds has the tasks (names and created_at, in order),
\* the start_time and the working flag of the session the invocation ended
\* with, which is thus the session the next invocation starts from.
C5_SaveLoadRoundTrip ==
    \A p \in SeqProcs :
        (pc[p] # "init" /\ store.valid) =>
            /\ Len(Persisted.tasks) = Len(session[p].tasks)
            /\ \A i \in 1..Len(session[p].tasks) :
                  /\ Persisted.tasks[i].name = session[p].tasks[i].name
                  /\ Persisted.tasks[i].created_at = session[p].tasks[i].created_at
            /\ Persisted.start_time = session[p].start_time
            /\ Persisted.working = session[p].working

\* a saved session whose start_time is off the whole second and whose tasks
\* have names with a backslash and a quote, and with a space
C5_Witness ==
    /\ pc[1] = "exited" /\ store.valid
    /\ session[1].working
    /\ session[1].start_time % TicksPerSecond # 0
    /\ Len(session[1].tasks) = 2
    /\ session[1].tasks[1].name = <<"\\", "\"">>
    /\ session[1].tasks[2].name = <<"a", " ", "b">>
    /\ session[1].tasks[2].created_at % TicksPerSecond # 0

StatusTaskLines(lines) ==
    LET IsTask(l) == l[1] = "StatusTask" IN SelectSeq(lines, IsTask)

\* C6: status changes neither the session (tasks in their order, start_time,
\* working) nor an existing session.json, and a status right after a status
\* shows the same task lines.
C6_StatusReadOnly ==
    [][\A p \in SeqProcs :
          (/\ argv'[p].sub = "status" /\ InvocationStep(p)
           /\ FileExists(store) /\ store.valid) =>
             /\ pc'[p] = "exited"
             /\ session'[p] = PreSession
             /\ store' = store
             /\ (pc[p] = "exited" /\ argv[p].sub = "status")
                    => StatusTaskLines(out'[p]) = StatusTaskLines(out[p])]_vars

\* status has shown a working session whose tasks are not in created_at
\* order, and the session still has them in insertion order
C6_Witness ==
    /\ pc[1] = "exited" /\ argv[1].sub = "status"
    /\ session[1].working
    /\ Len(session[1].tasks) = 2
    /\ session[1].tasks[1].created_at > session[1].tasks[2].created_at
    /\ Len(StatusTaskLines(out[1])) = 2
    /\ Persisted = session[1]

\* the commits of a log that are newer than start, as tasks, in log order
NewerCommits(commits, start) ==
    LET IsNewer(c) == c.date > start
        cs == SelectSeq(commits, IsNewer)
    IN  [i \in 1..Len(cs) |-> Task(cs[i].title, cs[i].date)]

\* C7: the import on a working session appends, after the tasks it has and
\* in log order, one task per commit dated after start_time, and reports
\* their number; commits already imported are appended again; with no newer
\* commit the count is 0 and tasks is unchanged; an idle session is left as
\* it is.  (An import that get_commits aborts appends nothing: see C9.)
C7_ImportAppendsNewerCommits ==
    [][\A p \in SeqProcs :
          (/\ argv'[p].sub = "git" /\ InvocationStep(p)
           /\ StoreReadable /\ ~get_commits(gitrun'[p]).panic) =>
             /\ pc'[p] = "exited"
             /\ store'.valid /\ load(store').self = session'[p]
             /\ session'[p].start_time = PreSession.start_time
             /\ session'[p].working = PreSession.working
             /\ IF PreSession.working
                THEN LET new_tasks == NewerCommits(get_commits(gitrun'[p]).commits,
                                                   PreSession.start_time)
                     IN  /\ session'[p].tasks = PreSession.tasks \o new_tasks
                         /\ out'[p][Len(out'[p])] = <<"Extracted", Len(new_tasks)>>
                ELSE /\ session'[p].tasks = PreSession.tasks
                     /\ out'[p] = << <<"No job session started">> >>]_vars

\* the same commit imported twice into one session
C7_Witness ==
    /\ pc[1] = "exited" /\ argv[1].sub = "git"
    /\ session[1].working
    /\ Len(session[1].tasks) = 2
    /\ session[1].tasks[1] = session[1].tasks[2]
    /\ out[1] = << <<"Extracted", 1>> >>

\* C8: when git cannot be launched or exits non-zero, the importer returns no
\* commit, the import on a working session adds no task and leaves the
\* session as it was, and the invocation goes on to save and exit.
C8_GitFailureImportsNothing ==
    [][\A p \in SeqProcs :
          (/\ argv'[p].sub = "git" /\ InvocationStep(p)
           /\ StoreReadable /\ PreSession.working
           /\ (~gitrun'[p].launched \/ ~gitrun'[p].success)) =>
             /\ pc'[p] = "exited"
             /\ session'[p] = PreSession
             /\ store'.valid /\ load(store').self = PreSession
             /\ out'[p][Len(out'[p])] = <<"Extracted", 0>>]_vars

\* git exited non-zero during an import into a session that has tasks
C8_Witness ==
    /\ pc[1] = "exited" /\ argv[1].sub = "git"
    /\ gitrun[1].launched /\ ~gitrun[1].success
    /\ session[1].working
    /\ Len(session[1].tasks) >= 1
    /\ out[1][Len(out[1])] = <<"Extracted", 0>>

\* C9 (as claimed): an import from a log that git produced successfully never
\* aborts the invocation, whatever records the log holds.
C9_MalformedRecordNeverAborts ==
    \A p \in SeqProcs :
        (/\ argv[p].sub = "git" /\ store.valid
         /\ gitrun[p].launched /\ gitrun[p].success) => pc[p] # "panicked"

\* C10 (as claimed): an unknown or a missing subcommand leaves the store as
\* it was, also when there was no file.
C10_NoSubcommandLeavesStore ==
    [][\A p \in SeqProcs :
          (argv'[p].sub \in {"bogus", ""} /\ InvocationStep(p)) => store' = store]_vars

\* C10 (amended): an unknown or a missing subcommand leaves an existing
\* session.json as it was; when there is no file, the invocation creates it,
\* holding a new session: not working, no tasks, start_time the time of the
\* invocation.
C10_NoSubcommandKeepsExistingStore ==
    [][\A p \in SeqProcs :
          (argv'[p].sub \in {"bogus", ""} /\ InvocationStep(p)) =>
             IF FileExists(store)
             THEN store' = store
             ELSE /\ FileExists(store') /\ store'.valid
                  /\ load(store').self = new(now)
                  /\ pc'[p] = "exited"]_vars

\* an unknown subcommand has run first, on a store with no file: the file
\* now holds the new session
C10_Witness ==
    /\ pc[1] = "exited" /\ argv[1].sub = "bogus"
    /\ store.valid
    /\ ~Persisted.working /\ Persisted.tasks = <<>>
    /\ Persisted.start_time = now /\ now > 0

\* C11: when session.json exists and cannot be parsed, the invocation aborts
\* before any subcommand acts and writes nothing: the file is left as it is,
\* not replaced by a new session.
C11_UnreadableStoreAborts ==
    [][\A p \in SeqProcs :
          (InvocationStep(p) /\ FileExists(store) /\ ~store.valid) =>
             /\ pc'[p] = "panicked"
             /\ out'[p] = <<>>
             /\ store' = store]_vars

\* a begin has been tried on a file that does not parse
C11_Witness ==
    /\ pc[1] = "panicked" /\ argv[1].sub = "begin"
    /\ store = CorruptFile
    /\ out[1] = <<>>

SavingSubcommands == {"begin", "end", "task", "git"}

\* C12: an invocation on no file leaves a file, which after a subcommand that
\* returns early holds the new default session; after begin, end, task and
\* git the file holds the session the method left, accepted or rejected;
\* after status, help and version (and a missing or unknown subcommand) an
\* existing file is as it was.
C12_LoadOperateSave ==
    [][\A p \in SeqProcs :
          (InvocationStep(p) /\ StoreReadable) =>
             /\ FileExists(store') /\ store'.valid
             /\ argv'[p].sub \in SavingSubcommands
                   => load(store').self = session'[p]
             /\ argv'[p].sub \notin SavingSubcommands
                   => /\ pc'[p] = "exited"
                      /\ session'[p] = PreSession
                      /\ IF FileExists(store)
                         THEN store' = store
                         ELSE load(store').self = new(now)]_vars

\* a task has been accepted and the file holds the session with that task
C12_Witness ==
    /\ pc[1] = "exited" /\ argv[1].sub = "task"
    /\ HasLine(out[1], "Task added")
    /\ store.valid
    /\ Persisted = session[1]
    /\ Len(Persisted.tasks) = 2
    /\ Persisted.tasks[2].name = Args(argv[1])

\* C13: start_time changes only in a begin from an idle session: every other
\* invocation leaves the start_time of the session it started from, in
\* memory and in an existing file.
C13_StartTimeOnlyByBegin ==
    [][\A p \in SeqProcs :
          (InvocationStep(p) /\ StoreReadable) =>
             \/ argv'[p].sub = "begin" /\ ~PreSession.working
             \/ /\ session'[p].start_time = PreSession.start_time
                /\ load(store').self.start_time = PreSession.start_time]_vars

\* an end has closed a session begun earlier, and start_time is still the
\* time of the begin
C13_Witness ==
    /\ pc[1] = "exited" /\ argv[1].sub = "end"
    /\ HasLine(out[1], "Job session ended")
    /\ session[1].start_time + TicksPerSecond <= now
    /\ store.valid /\ Persisted.start_time = session[1].start_time

IsPrefix(s, t) == Len(s) <= Len(t) /\ SubSeq(t, 1, Len(s)) = s

\* C14: in every step the new tasks list is empty or begins with the old
\* list, each old task with its name and created_at: nothing reorders,
\* edits or removes single tasks, in memory and in the file.
C14_TasksGrowOrClear ==
    [][\A p \in SeqProcs :
          (InvocationStep(p) /\ StoreReadable) =>
             /\ \/ session'[p].tasks = <<>>
                \/ IsPrefix(PreSession.tasks, session'[p].tasks)
             /\ \/ load(store').self.tasks = <<>>
                \/ IsPrefix(PreSession.tasks, load(store').self.tasks)]_vars

\* an import has appended an older commit after a task entered by hand
C14_Witness ==
    /\ pc[1] = "exited" /\ argv[1].sub = "git"
    /\ Len(session[1].tasks) = 2
    /\ session[1].tasks[1].created_at > session[1].tasks[2].created_at
    /\ out[1] = << <<"Extracted", 1>> >>
    /\ Persisted.tasks = session[1].tasks

\* C15: every session the file holds with working = false has no tasks.
C15_IdleStoreHasNoTasks ==
    (FileExists(store) /\ store.valid /\ ~Persisted.working)
        => Len(Persisted.tasks) = 0

\* an end has closed a session of two tasks: the file holds working = false
\* and no task
C15_Witness ==
    /\ pc[1] = "exited" /\ argv[1].sub = "end"
    /\ Len(SelectSeq(out[1], LAMBDA l : l[1] = "Task")) = 2
    /\ store.valid
    /\ ~Persisted.working /\ Persisted.tasks = <<>>

\* the lines of a report that show a task
ShownTasks(lines) ==
    LET IsTask(l) == l[1] \in {"Task", "StatusTask"} IN SelectSeq(lines, IsTask)

\* pi lists the positions of ts by created_at ascending, equal created_at
\* in the order of the positions
StableOrder(pi, ts) ==
    /\ \A i, j \in 1..Len(ts) : i # j => pi[i] # pi[j]
    /\ \A i, j \in 1..Len(ts) :
          i < j => \/ ts[pi[i]].created_at < ts[pi[j]].created_at
                   \/ /\ ts[pi[i]].created_at = ts[pi[j]].created_at
                      /\ pi[i] < pi[j]

\* C16: the task lines of end and of status are the tasks of the session,
\* each once, by created_at ascending, tasks of equal created_at in
\* insertion order.
C16_ShownTasksStablySorted ==
    [][\A p \in SeqProcs :
          (/\ InvocationStep(p) /\ StoreReadable /\ PreSession.working
           /\ argv'[p].sub \in {"end", "status"}) =>
             LET ts == PreSession.tasks
                 shown == ShownTasks(out'[p])
             IN  /\ Len(shown) = Len(ts)
                 /\ \E pi \in [1..Len(ts) -> 1..Len(ts)] :
                       /\ StableOrder(pi, ts)
                       /\ \A i \in 1..Len(ts) :
                             /\ shown[i][2] = FormatTime(ts[pi[i]].created_at)
                             /\ shown[i][3] = ts[pi[i]].name]_vars

\* end has listed an imported commit before the task entered by hand that
\* was inserted before it (the summary has the insertion order)
C16_Witness ==
    /\ pc[1] = "exited" /\ argv[1].sub = "end"
    /\ Len(ShownTasks(out[1])) = 2
    /\ ShownTasks(out[1])[1][3] = <<>>
    /\ ShownTasks(out[1])[2][3] = <<"a", " ", "b">>
    /\ \E i \in 1..Len(out[1]) :
          out[1][i] = <<"Summary", <<"a", " ", "b", ".", " ", ".">> >>

\* C17 (as claimed): end on a working session prints "No tasks added"
\* exactly when tasks is empty, and otherwise the names in insertion order
\* joined by ". " and followed by ".".
C17_SummaryOfEnd ==
    [][\A p \in SeqProcs :
          (/\ InvocationStep(p) /\ StoreReadable /\ PreSession.working
           /\ argv'[p].sub = "end") =>
             LET ts == PreSession.tasks
                 names == [i \in 1..Len(ts) |-> ts[i].name]
             IN  IF Len(ts) = 0
                 THEN /\ HasLine(out'[p], "No tasks added")
                      /\ ~HasLine(out'[p], "Summary")
                 ELSE /\ ~HasLine(out'[p], "No tasks added")
                      /\ \E i \in 1..Len(out'[p]) :
                            out'[p][i]
                               = <<"Summary", Join(names, <<".", " ">>) \o <<".">> >>]_vars

\* the Total time line of a report
TotalTimeOf(lines) ==
    SelectSeq(lines, LAMBDA l : l[1] = "Total time")

\* C18: in end and in status the elapsed time shown is total_seconds =
\* now - start_time in whole seconds, split as hours = total_seconds / 3600,
\* minutes = (total_seconds mod 3600) / 60, seconds = total_seconds mod 60;
\* when now >= start_time the three add up to total_seconds and minutes and
\* seconds are in 0..59.
C18_ElapsedSplit ==
    [][\A p \in SeqProcs :
          (/\ InvocationStep(p) /\ StoreReadable /\ PreSession.working
           /\ argv'[p].sub \in {"end", "status"}
           /\ now' >= PreSession.start_time) =>
             LET total_seconds == (now' - PreSession.start_time) \div TicksPerSecond
                 shown == TotalTimeOf(out'[p])
             IN  /\ Len(shown) = 1
                 /\ shown[1][2] = total_seconds \div 3600
                 /\ shown[1][3] = (total_seconds % 3600) \div 60
                 /\ shown[1][4] = total_seconds % 60
                 /\ shown[1][2] * 3600 + shown[1][3] * 60 + shown[1][4] = total_seconds
                 /\ shown[1][3] \in 0..59
                 /\ shown[1][4] \in 0..59]_vars

\* status has shown more than a day: 25h 1m 1s
C18_Witness ==
    /\ pc[1] = "exited" /\ argv[1].sub = "status"
    /\ now >= session[1].start_time
    /\ TotalTimeOf(out[1]) = << <<"Total time", 25, 1, 1>> >>

\* C19 (as claimed): the first line of the report of end and of status
\* shows the time the report is made.
C19_BeginLineShowsNow ==
    [][\A p \in SeqProcs :
          (InvocationStep(p) /\ StoreReadable /\ PreSession.working) =>
             /\ argv'[p].sub = "end"
                   => out'[p][3] = <<"Begin job session", FormatTime(now)>>
             /\ argv'[p].sub = "status"
                   => out'[p][1][2] = FormatTime(now)]_vars

\* C19 (amended): the begin line of the report of end shows the time the
\* report is made; the first line of status shows the stored start_time.
C19_BeginLineOfEndShowsNow ==
    [][\A p \in SeqProcs :
          (InvocationStep(p) /\ StoreReadable /\ PreSession.working) =>
             /\ argv'[p].sub = "end"
                   => out'[p][3] = <<"Begin job session", FormatTime(now)>>
             /\ argv'[p].sub = "status"
                   => out'[p][1]
                        = <<"Job session started at", FormatTime(PreSession.start_time)>>]_vars

\* end has shown a begin line at a second later than that of start_time
C19_Witness ==
    /\ pc[1] = "exited" /\ argv[1].sub = "end"
    /\ HasLine(out[1], "Job session ended")
    /\ out[1][3][1] = "Begin job session"
    /\ out[1][3][2] > FormatTime(session[1].start_time)

\* every invocation has ended
AllDone == \A p \in Procs : pc[p] \in {"exited", "panicked"}

\* C20 (as claimed): with two invocations at once, session.json finally holds
\* a session written whole by one invocation, never a mix of the two.
C20_StoreNeverMixed ==
    AllDone => /\ store.valid
               /\ \E p \in Procs : Persisted = session[p]

\* C20 (amended): a save is a truncation followed by a write.  After the
\* write of p, a file that parses holds exactly the session of p, whatever
\* the other invocation had saved; the write leaves the session of p whole
\* when it finds the file as the truncation left it; it leaves a file that
\* does not parse only when the other invocation wrote in between; when the
\* other invocation wrote in between, the file is left as a mix that does not
\* parse exactly when the record of p is shorter than the record in the
\* file; and an invocation that reads the file between a truncation and the
\* write aborts and writes nothing.
C20_LastWriteWholeOrTorn ==
    [][\A p \in Procs :
          /\ (pc[p] = "created" /\ pc'[p] = "exited") =>
                /\ store'.valid => load(store').self = session[p]
                /\ ~store.valid => store'.valid
                /\ ~store'.valid =>
                      /\ store.valid
                      /\ \E q \in Procs \ {p} :
                            pc[q] = "exited" /\ Persisted = session[q]
                /\ store.valid =>
                      (~store'.valid <=>
                          \E off \in Offsets :
                              DocSize(to_string(session[p], off)) < DocSize(store.doc))
          /\ (pc[p] = "init" /\ pc'[p] # "init" /\ ~store.valid) =>
                pc'[p] = "panicked" /\ store' = store]_vars

\* two task commands both loaded the session without tasks and both were
\* accepted; the file holds one task, that of the invocation that wrote last
C20_Witness ==
    /\ AllDone
    /\ \A p \in Procs :
          /\ argv[p].sub = "task"
          /\ HasLine(out[p], "Task added")
          /\ Len(session[p].tasks) = 1
    /\ session[1].tasks # session[2].tasks
    /\ store.valid
    /\ Persisted = session[2]

====
